---- MODULE Spec2Model ----
(***************************************************************************)
(* A model of the two transcription scripts of compose-whisper-yt:         *)
(*   src/app/transcribe.py  (the "app" variant: feature toggles, chunking) *)
(*   src/transcribe.py      (the "root" variant)                           *)
(* Strings that the code inspects character by character (titles, file     *)
(* stems, transcripts) are sequences of one-character strings.             *)
(***************************************************************************)
EXTENDS Integers, Sequences, FiniteSets, TLC

(***************************************************************************)
(* Bounds of the model.                                                    *)
(***************************************************************************)
\* longest raw name handed to sanitize_filename in SpecSanitize
MaxNameLen == 4

(***************************************************************************)
(* sanitize_filename                                                       *)
(***************************************************************************)
\* r'<>:"/\|?*' in the order the loop visits it
ForbiddenChars == << "<", ">", ":", "\"", "/", "\\", "|", "?", "*" >>

\* the default of the max_length parameter
DEFAULT_MAX_LENGTH == 200

\* the literal the function falls back to
TRANSCRIPT == << "t", "r", "a", "n", "s", "c", "r", "i", "p", "t" >>

\* str.replace(ch, ""): every occurrence of ch dropped
Replace(name, ch) == SelectSeq(name, LAMBDA c : c # ch)

RECURSIVE RemoveAll(_, _)
\* the for loop over the forbidden characters
RemoveAll(name, chars) ==
    IF chars = << >> THEN name
    ELSE RemoveAll(Replace(name, Head(chars)), Tail(chars))

RECURSIVE LStrip(_, _)
LStrip(name, set) ==
    IF name # << >> /\ Head(name) \in set THEN LStrip(Tail(name), set) ELSE name

RECURSIVE RStrip(_, _)
RStrip(name, set) ==
    IF name # << >> /\ name[Len(name)] \in set
    THEN RStrip(SubSeq(name, 1, Len(name) - 1), set)
    ELSE name

\* str.strip(chars)
Strip(name, set) == RStrip(LStrip(name, set), set)

\* name[:n] for n >= 0
Truncate(name, n) == IF Len(name) > n THEN SubSeq(name, 1, n) ELSE name

sanitize_filename(name, max_length) ==
    LET n1 == RemoveAll(name, ForbiddenChars)
        n2 == Replace(Replace(n1, "/"), "\\")
        n3 == Strip(n2, {".", " "})
        n4 == Truncate(n3, max_length)
    IN  IF n4 = << >> THEN TRANSCRIPT ELSE n4

\* SpecSanitize's state: the name and the cap handed to sanitize_filename,
\* and what it returned
VARIABLES sanIn, sanMax, sanOut, sanDone

sanVars == << sanIn, sanMax, sanOut, sanDone >>

\* sanitize_filename is not being exercised
SanIdle ==
    /\ sanIn = << >>
    /\ sanMax = DEFAULT_MAX_LENGTH
    /\ sanOut = << >>
    /\ sanDone = FALSE

(***************************************************************************)
(* The batch run: main() of both variants                                  *)
(***************************************************************************)
\* longest list file (lines) a run is started on
MaxItems == 2
\* longest audio, in the unit CHUNK_DURATION and CHUNK_THRESHOLD are given in
MaxDur == 3

\* VALID_MODELS with a name that is no Whisper model
VALID_MODELS_lax ==
    { "tiny", "base", "small", "medium", "large", "large-v2", "large-v3", "huge" }

VALID_MODELS == { "tiny", "base", "small", "medium", "large", "large-v2", "large-v3" }

SUPPORTED_EXTENSIONS ==
    { ".mp4", ".mkv", ".webm", ".avi", ".mp3", ".m4a", ".wav", ".flac", ".ogg" }

\* video_extensions of cleanup_video_files
VIDEO_EXTENSIONS == { ".mp4", ".mkv", ".webm", ".avi", ".mov", ".flv", ".wmv", ".m4v" }

\* An input string, by what the code looks at: kind "url" is
\* startswith(("http://", "https://")), yt is "youtube.com" or "youtu.be" in
\* it, dir is "out" once main() has joined it to the output directory, stem
\* and ext are os.path.splitext of its basename.
Str(kind, yt, stem, ext) ==
    [kind |-> kind, yt |-> yt, dir |-> "rel", stem |-> stem, ext |-> ext]

NoInput == Str("none", FALSE, << >>, "")
U1 == Str("url", TRUE, << "1" >>, "")          \* https://youtu.be/1
UX == Str("url", FALSE, << "x" >>, "")         \* https://example.com/x
F1 == Str("file", FALSE, << "a" >>, ".mp3")    \* a.mp3
FP == Str("file", FALSE, << "n" >>, ".pdf")    \* n.pdf
Comment == Str("comment", FALSE, << "#" >>, "") \* a "# ..." or blank line
ListFile == Str("file", FALSE, << "l" >>, ".txt")  \* l.txt
FW == Str("file", FALSE, << "a" >>, ".webm")   \* a.webm

\* what "yt-dlp --print title" answers for a URL when it succeeds
RawTitle(url) == IF url = U1 THEN << "a", ":" >> ELSE << "?" >>

\* a file of the filesystem: audio carries its true duration, a text file
\* its characters
File(dir, stem, ext, dur, text) ==
    [dir |-> dir, stem |-> stem, ext |-> ext, dur |-> dur, text |-> text]

Path(dir, stem, ext) == [dir |-> dir, stem |-> stem, ext |-> ext]

\* the empty string download_audio returns on failure
NoPath == Path("", << >>, "")

PathOf(f) == Path(f.dir, f.stem, f.ext)

\* os.path.exists / os.path.isfile on a path
exists(files, p) == \E f \in files : PathOf(f) = p

\* os.path.join(output_dir, name)
join(stem, ext) == Path("out", stem, ext)

\* the path a string names: relative to the working directory, or already
\* joined to the output directory
AsPath(s) == Path(IF s.dir = "out" THEN "out" ELSE "cwd", s.stem, s.ext)

\* os.path.join(args.output, item): joining a path already under the output
\* directory names nothing that exists
JoinOutput(s) == IF s.dir = "out" THEN NoPath ELSE Path("out", s.stem, s.ext)

Digits == << "0", "1", "2", "3", "4", "5", "6", "7", "8", "9" >>

\* the text model.transcribe finds in chunk n, or in the whole file (n = -1):
\* Whisper's text starts with a space
TextOf(n) == IF n < 0 THEN << " ", "w", " ", "w" >> ELSE << " ", Digits[n + 1] >>

Durations == 1..MaxDur

OldText == << "o" >>

NoTmp == [dirs |-> {}, files |-> {}]

\* a chunk directory an earlier run left behind (it was killed between the
\* split and the cleanup, or its split failed)
StaleTmp == [dirs |-> { << "a" >> }, files |-> { [title |-> << "a" >>, n |-> MaxDur + 1] }]

\* what a run may find on disk: the files, and the chunk directories
FsOptions ==
    { [files |-> {}, tmp |-> NoTmp],
      [files |-> { File("out", << "a" >>, ".mp3", MaxDur, << >>) }, tmp |-> NoTmp],
      [files |-> { File("out", << "a" >>, ".mp3", MaxDur, << >>) }, tmp |-> StaleTmp],
      [files |-> { File("out", << "a" >>, ".mp3", 2, << >>),
                   File("out", << "a" >>, ".txt", 0, OldText) }, tmp |-> NoTmp],
      [files |-> { File("cwd", << "a" >>, ".mp3", MaxDur, << >>),
                   File("out", << "n" >>, ".pdf", 0, << >>),
                   File("out", << "a" >>, ".webm", 0, << >>) }, tmp |-> NoTmp] }

ModelNames == { "large-v3", "huge" }
\* CHUNK_DURATION and CHUNK_THRESHOLD as the runs set them
ChunkConfigs == { [duration |-> 1, threshold |-> 2], [duration |-> 2, threshold |-> 1] }

\* the root variant has no toggles and no chunking
RootEnv ==
    [enable_download |-> TRUE, enable_transcription |-> TRUE,
     chunk_duration |-> 0, chunk_threshold |-> 0]

AppEnvs ==
    { [enable_download |-> d, enable_transcription |-> t,
       chunk_duration |-> c.duration, chunk_threshold |-> c.threshold] :
         d \in BOOLEAN, t \in BOOLEAN, c \in ChunkConfigs }

LineChoices == { U1, UX, F1, FP, Comment }

ListContents == UNION { [1..k -> LineChoices] : k \in 0..MaxItems }

Inputs == { NoInput, ListFile, U1, UX, F1, FP }

VARIABLES
    variant,      \* "app": src/app/transcribe.py, "root": src/transcribe.py
    args,         \* argparse's result: input, model
    lines,        \* the lines of the list file
    env,          \* the toggles and chunk sizes read from the environment
    fs,           \* the files of the working and the output directory
    fs0,          \* fs as the run found it
    dirs,         \* which of the output and the cache directory exist
    tmp,          \* the chunk directories and their files
    pc,           \* where main() is
    exit_code,    \* the status the process ended with, -1 while it runs
    model,        \* "None" or "loaded"
    items, idx, successes, errors, success,      \* main()'s locals
    title, audio_path, duration, chunks, texts,  \* the callees' locals
    attempted,    \* history: the indexes the loop has started, in order
    finished,     \* history: the indexes the loop has tallied, in order
    calls,        \* history: the external calls made for the current item
    inflight,     \* the external calls that have not returned
    out,          \* history: messages printed since the current item began
    obs           \* history: facts about the run the claims refer to

mainVars ==
    << variant, args, lines, env, fs, fs0, dirs, tmp, pc, exit_code, model,
       items, idx, successes, errors, success, title, audio_path, duration,
       chunks, texts, attempted, finished, calls, inflight, out, obs >>

\* SpecEquiv runs the app variant and then the root variant on the same
\* list, files and answers of the external tools
VARIABLES
    oracle,   \* what the external tools answer, item by item, unless free
    first,    \* how the app variant's run ended, once the root variant runs
    log       \* history: the tallied items' title, download and model calls

replayVars == << oracle, first, log >>

vars == << mainVars, sanVars, replayVars >>

\* the external tools may answer anything
Free == [free |-> TRUE, start |-> "ok", item |-> << >>]

NoResult ==
    [set |-> FALSE, reported |-> FALSE, successes |-> 0, errors |-> 0,
     fs |-> {}, log |-> << >>]

\* no replay is going on
ReplayIdle ==
    /\ oracle = Free
    /\ first = NoResult
    /\ log = << >>

\* of an item's calls, those both variants make
Replayed(cs) == SelectSeq(cs, LAMBDA c : c.op \in { "title", "download", "infer" })

\* loads: successful load_model calls; loadedAt: how many items had been
\* started when the model was loaded; inferred: model.transcribe was called;
\* inferOnNone: it was called on None; for the current item: txtHit and mp3Hit,
\* whether transcribe_audio found the transcript and download_audio the
\* audio, and fsAtCall, fs when transcribe_audio was entered
NoObs ==
    [loads |-> 0, loadedAt |-> -1, inferred |-> FALSE, inferOnNone |-> FALSE,
     txtHit |-> FALSE, mp3Hit |-> FALSE, fsAtCall |-> {}]

Init ==
    /\ variant \in { "app", "root" }
    /\ args \in [input : Inputs, model : ModelNames]
    /\ lines \in (IF args.input = ListFile THEN ListContents ELSE { << >> })
    /\ env \in (IF variant = "app" THEN AppEnvs ELSE { RootEnv })
    /\ \E o \in FsOptions :
          /\ fs = o.files \cup (IF args.input = ListFile
                                THEN { File("cwd", ListFile.stem, ListFile.ext, 0, << >>) }
                                ELSE {})
          /\ tmp = o.tmp
    /\ fs0 = fs
    /\ dirs \in (IF \E f \in fs : f.dir = "out"
                 THEN { { "out", "cache" } }
                 ELSE { {}, { "out", "cache" } })
    /\ pc = "parse"
    /\ exit_code = -1
    /\ model = "None"
    /\ items = << >>
    /\ idx = 0
    /\ successes = 0
    /\ errors = << >>
    /\ success = FALSE
    /\ title = << >>
    /\ audio_path = NoPath
    /\ duration = 0
    /\ chunks = << >>
    /\ texts = << >>
    /\ attempted = << >>
    /\ finished = << >>
    /\ calls = << >>
    /\ inflight = {}
    /\ out = << >>
    /\ obs = NoObs
    /\ SanIdle
    /\ ReplayIdle

cfgVars == << variant, args, lines, env, fs0 >>
loopVars == << items, idx, successes, errors, success >>
localVars == << title, audio_path, duration, chunks, texts >>

\* an external call in progress: the tool, the item it is for, and the chunk
\* it works on (-1: none)
Call(op, i, n) == [op |-> op, item |-> i, n |-> n]

\* a finished external call, as the history keeps it
Done(op, n, rc) == [op |-> op, n |-> n, rc |-> rc]

is_youtube_url(url) == url.kind = "url" /\ url.yt

\* str.lower() on the extensions the model meets
Lower(ext) == IF ext = ".MP3" THEN ".mp3" ELSE ext

\* is_video_file without the check of the extension
is_video_file_any(filepath) == TRUE

is_video_file(filepath) == Lower(filepath.ext) \in SUPPORTED_EXTENSIONS

get_title_from_filename(filepath) ==
    sanitize_filename(filepath.stem, DEFAULT_MAX_LENGTH)

\* str.strip(): whitespace
Whitespace == { " " }

\* get_video_title, given what yt-dlp did: rc its exit code, stdout its output
get_video_title(rc, stdout) ==
    IF rc = 0 /\ Strip(stdout, Whitespace) # << >>
    THEN sanitize_filename(Strip(stdout, Whitespace), DEFAULT_MAX_LENGTH)
    ELSE TRANSCRIPT

\* " ".join(texts)
RECURSIVE JoinSpace(_)
JoinSpace(ts) ==
    IF ts = << >> THEN << >>
    ELSE IF Len(ts) = 1 THEN ts[1]
    ELSE ts[1] \o << " " >> \o JoinSpace(Tail(ts))

\* sorted(...) of the chunk files, by their numbers: chunk_%03d names sort
\* as their numbers do below 1000
RECURSIVE Sorted(_)
Sorted(S) ==
    IF S = {} THEN << >>
    ELSE LET m == CHOOSE x \in S : \A y \in S : x <= y
         IN  << m >> \o Sorted(S \ { m })

\* the number of segments "ffmpeg -f segment -segment_time c" cuts d into
Segments(d, c) == (d + c - 1) \div c

\* the true duration of the audio at a path
AudioDur(files, p) ==
    IF exists(files, p) THEN (CHOOSE f \in files : PathOf(f) = p).dur ELSE 0

\* open(path, "w").write(text)
WriteFile(files, p, text) ==
    { f \in files : PathOf(f) # p } \cup { File(p.dir, p.stem, p.ext, 0, text) }

\* shutil.rmtree(tmp_dir, ignore_errors=True)
rmtree(t, ttl) ==
    [dirs |-> t.dirs \ { ttl }, files |-> { f \in t.files : f.title # ttl }]

\* for line in f: line.strip(), kept unless empty or a comment
ReadList(ls) == SelectSeq(ls, LAMBDA l : l.kind # "comment")

(***************************************************************************)
(* What the external tools may answer.                                     *)
(***************************************************************************)
\* yt-dlp --print title: exit code and standard output
TitleOutcomes(url) ==
    LET all == { [rc |-> 0, stdout |-> RawTitle(url)], [rc |-> 1, stdout |-> << >>] }
    IN  IF oracle.free THEN all
        ELSE { o \in all : o.rc = oracle.item[idx].title }

\* yt-dlp --extract-audio: exit code, and whether it left the mp3 (of which
\* duration)
DownloadOutcomes ==
    LET all == [rc : { 0, 1 }, wrote : { FALSE }, dur : { 0 }]
                  \cup [rc : { 0, 1 }, wrote : { TRUE }, dur : Durations]
    IN  IF oracle.free THEN all
        ELSE { o \in all : o = oracle.item[idx].download }

\* ffprobe: exit code, and whether it printed the duration or nothing float()
\* parses ("N/A", or nothing at all)
ProbeOutcomes ==
    { [rc |-> 0, stdout |-> "number"], [rc |-> 0, stdout |-> "garbled"],
      [rc |-> 1, stdout |-> "garbled"] }

\* ffmpeg -f segment on an audio of n segments: exit code and the chunk files
\* it wrote (all of them on success, some on failure)
SplitOutcomes(n) ==
    { [rc |-> 0, wrote |-> 0..(n - 1)] }
        \cup { [rc |-> 1, wrote |-> {}], [rc |-> 1, wrote |-> { 0 }] }

\* model.transcribe: a text, or an exception
InferOutcomes(n) ==
    LET all == { [raised |-> FALSE, text |-> TextOf(n)], [raised |-> TRUE, text |-> << >>] }
    IN  IF oracle.free THEN all
        ELSE { o \in all : o.raised = oracle.item[idx].infer }

\* with open(txt_path, "w") as f: f.write(full_text): it works; or open raises
\* OSError before the file exists; or the file is opened, and so created
\* empty, and the write or the flush at close raises (the disk is full)
WriteOutcomes ==
    IF oracle.free THEN { "ok", "oserror", "partial" } ELSE { oracle.item[idx].write }

\* whisper.load_model: it works, or raises
LoadOutcomes ==
    IF oracle.free THEN { "ok", "raise" }
    ELSE { IF oracle.start = "load_raise" THEN "raise" ELSE "ok" }

\* open(..., encoding="utf-8") and the read of the list: whether it decodes
DecodeOutcomes ==
    IF oracle.free THEN BOOLEAN ELSE { oracle.start # "not_utf8" }

(***************************************************************************)
(* main() up to the loop                                                   *)
(***************************************************************************)
\* sys.exit(code) after printing msg
Exit(code, msg) ==
    /\ pc' = "exit"
    /\ exit_code' = code
    /\ out' = Append(out, msg)

\* parser.parse_args() and, in the app variant, the help shown for no input
ParseArgs ==
    /\ pc = "parse"
    /\ IF args.input = NoInput
       THEN IF variant = "app" THEN Exit(0, "help") ELSE Exit(2, "usage")
       ELSE /\ pc' = (IF variant = "app" THEN "mkdir_out" ELSE "validate")
            /\ UNCHANGED << exit_code, out >>
    /\ UNCHANGED << cfgVars, loopVars, localVars, fs, dirs, tmp, model,
                    attempted, finished, calls, inflight, obs, sanVars, replayVars >>

\* os.makedirs(args.output, exist_ok=True)
MakeOutputDir ==
    /\ pc = "mkdir_out"
    /\ \E ok \in (IF "out" \in dirs THEN { TRUE } ELSE BOOLEAN) :
          IF ok
          THEN /\ dirs' = dirs \cup { "out" }
               /\ pc' = (IF variant = "app" THEN "mkdir_cache" ELSE "resolve")
               /\ UNCHANGED << exit_code, out >>
          ELSE /\ Exit(1, IF variant = "app" THEN "mkdir_error" ELSE "traceback")
               /\ UNCHANGED dirs
    /\ UNCHANGED << cfgVars, loopVars, localVars, fs, tmp, model,
                    attempted, finished, calls, inflight, obs, sanVars, replayVars >>

\* os.makedirs(model_cache_dir, exist_ok=True), then the configuration is
\* read and printed
MakeCacheDir ==
    /\ pc = "mkdir_cache"
    /\ \E ok \in (IF "cache" \in dirs THEN { TRUE } ELSE BOOLEAN) :
          IF ok
          THEN /\ dirs' = dirs \cup { "cache" }
               /\ pc' = "validate"
               /\ exit_code' = exit_code
               /\ out' = (IF ~env.enable_download /\ ~env.enable_transcription
                          THEN Append(out, "warn_nothing_enabled") ELSE out)
          ELSE /\ Exit(1, "mkdir_error")
               /\ UNCHANGED dirs
    /\ UNCHANGED << cfgVars, loopVars, localVars, fs, tmp, model,
                    attempted, finished, calls, inflight, obs, sanVars, replayVars >>

\* if args.model not in VALID_MODELS
ValidateModel ==
    /\ pc = "validate"
    /\ IF args.model \notin VALID_MODELS
       THEN Exit(1, "invalid_model")
       ELSE /\ pc' = (IF variant = "app" THEN "resolve" ELSE "mkdir_out")
            /\ UNCHANGED << exit_code, out >>
    /\ UNCHANGED << cfgVars, loopVars, localVars, fs, dirs, tmp, model,
                    attempted, finished, calls, inflight, obs, sanVars, replayVars >>

\* the items args.input stands for; utf8: whether a list file decodes
ResolveItems(inp, utf8) ==
    LET list == IF utf8 THEN [err |-> "", items |-> ReadList(lines)]
                ELSE [err |-> "not_utf8", items |-> << >>]
        one(it) == [err |-> "", items |-> << it >>]
        got == IF exists(fs, AsPath(inp))
               THEN IF inp.ext = ".txt" THEN list ELSE one(inp)
               ELSE IF exists(fs, JoinOutput(inp))
               THEN IF inp.ext = ".txt" THEN list
                    ELSE one([inp EXCEPT !.dir = "out"])
               ELSE IF inp.kind = "url" THEN one(inp)
               ELSE [err |-> "invalid_input", items |-> << >>]
    IN  IF got.err = "" /\ got.items = << >>
        THEN [err |-> "no_items", items |-> << >>]
        ELSE got

\* "Collect items to process" and "Validate batch is not empty"
ResolveInput ==
    /\ pc = "resolve"
    /\ \E utf8 \in (IF args.input.ext = ".txt" THEN DecodeOutcomes ELSE { TRUE }) :
          LET r == ResolveItems(args.input, utf8)
          IN  IF r.err # ""
              THEN Exit(1, r.err) /\ UNCHANGED items
              ELSE /\ items' = r.items
                   /\ pc' = "load"
                   /\ UNCHANGED << exit_code, out >>
    /\ UNCHANGED << cfgVars, idx, successes, errors, success, localVars, fs,
                    dirs, tmp, model, attempted, finished, calls, inflight,
                    obs, sanVars, replayVars >>

\* "Load Whisper model": the call is made, unless transcription is disabled
LoadModelStart ==
    /\ pc = "load"
    /\ IF env.enable_transcription
       THEN /\ inflight' = inflight \cup { Call("load", 0, -1) }
            /\ pc' = "load_call"
            /\ out' = out
       ELSE /\ pc' = "loop"
            /\ out' = Append(out, "skip_model_loading")
            /\ UNCHANGED inflight
    /\ UNCHANGED << cfgVars, loopVars, localVars, fs, dirs, tmp, model,
                    exit_code, attempted, finished, calls, obs, sanVars, replayVars >>

\* whisper.load_model returns or raises
LoadModelReturn ==
    /\ pc = "load_call"
    /\ inflight' = inflight \ { Call("load", 0, -1) }
    /\ \E o \in LoadOutcomes :
          IF o = "ok"
          THEN /\ model' = "loaded"
               /\ obs' = [obs EXCEPT !.loads = @ + 1, !.loadedAt = Len(attempted)]
               /\ pc' = "loop"
               /\ UNCHANGED << exit_code, out >>
          ELSE /\ Exit(1, "load_error")
               /\ UNCHANGED << model, obs >>
    /\ UNCHANGED << cfgVars, loopVars, localVars, fs, dirs, tmp,
                    attempted, finished, calls, sanVars, replayVars >>

(***************************************************************************)
(* The loop over the items                                                 *)
(***************************************************************************)
\* a callee returns to the loop body with its result and what it printed
Return(s, msgs) ==
    /\ success' = s
    /\ out' = out \o msgs
    /\ pc' = "tally"

\* process_local_file without its check of ENABLE_TRANSCRIPTION
process_local_file_unchecked(filepath) ==
    IF ~exists(fs, filepath)
    THEN [pc |-> "tally", out |-> << "file_not_found" >>, title |-> << >>]
    ELSE IF ~is_video_file(filepath)
    THEN [pc |-> "tally", out |-> << "unsupported_type" >>, title |-> << >>]
    ELSE [pc |-> "ta_entry", out |-> << >>,
          title |-> get_title_from_filename(filepath)]

\* process_local_file up to its call of transcribe_audio
process_local_file(filepath) ==
    IF ~exists(fs, filepath)
    THEN [pc |-> "tally", out |-> << "file_not_found" >>, title |-> << >>]
    ELSE IF ~is_video_file(filepath)
    THEN [pc |-> "tally", out |-> << "unsupported_type" >>, title |-> << >>]
    ELSE IF ~env.enable_transcription
    THEN [pc |-> "tally", out |-> << "transcription_disabled" >>,
          title |-> get_title_from_filename(filepath)]
    ELSE [pc |-> "ta_entry", out |-> << >>,
          title |-> get_title_from_filename(filepath)]

\* for idx, item in enumerate(items): the next item is taken and dispatched,
\* up to the first external call made for it
LoopHead ==
    /\ pc = "loop"
    /\ IF idx = Len(items)
       THEN /\ pc' = "summary"
            /\ UNCHANGED << idx, errors, success, localVars, attempted, calls,
                            inflight, out, obs >>
       ELSE LET item == items[idx + 1]
                filepath == IF exists(fs, AsPath(item)) THEN AsPath(item)
                            ELSE JoinOutput(item)
                local == process_local_file(filepath)
            IN  /\ idx' = idx + 1
                /\ attempted' = Append(attempted, idx + 1)
                /\ success' = FALSE
                /\ calls' = << >>
                /\ obs' = [obs EXCEPT !.txtHit = FALSE, !.mp3Hit = FALSE,
                                      !.fsAtCall = {}]
                /\ duration' = 0
                /\ chunks' = << >>
                /\ texts' = << >>
                /\ IF item.kind = "url"
                   THEN /\ errors' = errors
                        /\ title' = << >>
                        /\ audio_path' = NoPath
                        /\ IF ~is_youtube_url(item)
                           THEN /\ out' = << "invalid_url" >>
                                /\ pc' = "tally"
                                /\ inflight' = inflight
                           ELSE /\ out' = << >>
                                /\ pc' = "title_call"
                                /\ inflight' = inflight \cup { Call("title", idx + 1, -1) }
                   ELSE IF exists(fs, filepath)
                   THEN /\ errors' = errors
                        /\ title' = local.title
                        /\ audio_path' = filepath
                        /\ out' = local.out
                        /\ pc' = local.pc
                        /\ inflight' = inflight
                   ELSE /\ errors' = Append(errors, [item |-> item, msg |-> "File not found"])
                        /\ title' = << >>
                        /\ audio_path' = NoPath
                        /\ out' = << "file_not_found" >>
                        /\ pc' = "tally"
                        /\ inflight' = inflight
    /\ UNCHANGED << cfgVars, items, successes, fs, dirs, tmp, exit_code, model,
                    finished, sanVars, replayVars >>

\* get_video_title returns; process_video checks ENABLE_DOWNLOAD
TitleReturn ==
    /\ pc = "title_call"
    /\ inflight' = inflight \ { Call("title", idx, -1) }
    /\ \E o \in TitleOutcomes(items[idx]) :
          /\ title' = get_video_title(o.rc, o.stdout)
          /\ calls' = Append(calls, Done("title", -1, o.rc))
    /\ IF ~env.enable_download
       THEN Return(FALSE, << "download_disabled" >>)
       ELSE /\ pc' = "download_entry"
            /\ UNCHANGED << success, out >>
    /\ UNCHANGED << cfgVars, items, idx, successes, errors, audio_path,
                    duration, chunks, texts, fs, dirs, tmp, exit_code, model,
                    attempted, finished, obs, sanVars, replayVars >>

\* process_video of the app variant returning once download_audio is done
AfterDownloadReturns == IF variant = "app" THEN "tally" ELSE "ta_entry"

\* where process_video goes once download_audio gave it a path
AfterDownload == IF variant = "app" THEN "cleanup" ELSE "ta_entry"

\* download_audio starting yt-dlp without waiting for it (Popen for run)
DownloadEntryAsync ==
    /\ pc = "download_entry"
    /\ LET p == join(title, ".mp3")
       IN  IF exists(fs, p)
           THEN /\ audio_path' = p
                /\ obs' = [obs EXCEPT !.mp3Hit = TRUE]
                /\ out' = Append(out, "audio_exists")
                /\ pc' = AfterDownload
                /\ UNCHANGED inflight
           ELSE /\ inflight' = inflight \cup { Call("download", idx, -1) }
                /\ audio_path' = p
                /\ pc' = AfterDownload
                /\ UNCHANGED << obs, out >>
    /\ UNCHANGED << cfgVars, loopVars, title, duration, chunks, texts, fs,
                    dirs, tmp, exit_code, model, attempted, finished, calls,
                    sanVars, replayVars >>

\* download_audio up to subprocess.run: an existing mp3 is returned as it is
DownloadEntry ==
    /\ pc = "download_entry"
    /\ LET p == join(title, ".mp3")
       IN  IF exists(fs, p)
           THEN /\ audio_path' = p
                /\ obs' = [obs EXCEPT !.mp3Hit = TRUE]
                /\ out' = Append(out, "audio_exists")
                /\ pc' = AfterDownload
                /\ UNCHANGED inflight
           ELSE /\ inflight' = inflight \cup { Call("download", idx, -1) }
                /\ pc' = "download_call"
                /\ UNCHANGED << audio_path, obs, out >>
    /\ UNCHANGED << cfgVars, loopVars, title, duration, chunks, texts, fs,
                    dirs, tmp, exit_code, model, attempted, finished, calls,
                    sanVars, replayVars >>

\* download_audio trusting the exit code alone
download_audio_result_rc_only(rc, files, p) ==
    IF rc # 0 THEN [path |-> NoPath, msg |-> "ytdlp_failed"]
    ELSE [path |-> p, msg |-> "audio_downloaded"]

\* what download_audio returns once yt-dlp has exited with rc, given the
\* files then present
download_audio_result(rc, files, p) ==
    IF rc # 0 THEN [path |-> NoPath, msg |-> "ytdlp_failed"]
    ELSE IF ~exists(files, p) THEN [path |-> NoPath, msg |-> "expected_file_not_found"]
    ELSE [path |-> p, msg |-> "audio_downloaded"]

\* yt-dlp exits; download_audio and then process_video check the result
DownloadReturn ==
    /\ pc = "download_call"
    /\ inflight' = inflight \ { Call("download", idx, -1) }
    /\ \E o \in DownloadOutcomes :
          LET p == join(title, ".mp3")
              files == IF o.wrote
                       THEN fs \cup { File("out", title, ".mp3", o.dur, << >>) }
                       ELSE fs
              r == download_audio_result(o.rc, files, p)
          IN  /\ fs' = files
              /\ calls' = Append(calls, Done("download", -1, o.rc))
              /\ audio_path' = r.path
              /\ IF r.path = NoPath
                 THEN Return(FALSE, << r.msg, "skip_transcription" >>)
                 ELSE /\ pc' = AfterDownload
                      /\ out' = Append(out, r.msg)
                      /\ UNCHANGED success
    /\ UNCHANGED << cfgVars, items, idx, successes, errors, title, duration,
                    chunks, texts, dirs, tmp, exit_code, model, attempted,
                    finished, obs, sanVars, replayVars >>

\* cleanup_video_files, then process_video checks ENABLE_TRANSCRIPTION
CleanupVideoFiles ==
    /\ pc = "cleanup"
    /\ fs' = { f \in fs : ~(f.dir = "out" /\ f.stem = title
                            /\ f.ext \in VIDEO_EXTENSIONS) }
    /\ IF ~env.enable_transcription
       THEN Return(TRUE, << "transcription_disabled" >>)
       ELSE /\ pc' = "ta_entry"
            /\ UNCHANGED << success, out >>
    /\ UNCHANGED << cfgVars, items, idx, successes, errors, localVars, dirs,
                    tmp, exit_code, model, attempted, finished, calls,
                    inflight, obs, sanVars, replayVars >>

(***************************************************************************)
(* transcribe_audio                                                        *)
(***************************************************************************)
\* model.transcribe is about to be called
InferStarts(o) ==
    [o EXCEPT !.inferred = TRUE, !.inferOnNone = @ \/ model = "None"]

\* what model.transcribe may do: on None it can only raise
InferResults(n) ==
    IF model = "None" THEN { [raised |-> TRUE, text |-> << >>] } ELSE InferOutcomes(n)

\* get_audio_duration: float(stdout) of ffprobe, 0.0 when that fails
get_audio_duration(o, p) == IF o.stdout = "number" THEN AudioDur(fs, p) ELSE 0

\* the threshold test with >= for >
over_threshold_inclusive(d, chunk_threshold) == d >= chunk_threshold

\* if duration > chunk_threshold
over_threshold(d, chunk_threshold) == d > chunk_threshold

\* what split_audio returns once ffmpeg has exited with rc, given the chunk
\* files then in tmp_dir
split_audio_result(rc, files, ttl) ==
    IF rc # 0 THEN << >>
    ELSE Sorted({ f.n : f \in { g \in files : g.title = ttl } })

\* transcribe_audio without its check for an existing transcript
transcript_cached_never(files, txt_path) == FALSE

\* if os.path.exists(txt_path): the transcript is there already
transcript_cached(files, txt_path) == exists(files, txt_path)

\* transcribe_audio up to its first external call: the transcript and the
\* audio are looked for
TranscribeEntry ==
    /\ pc = "ta_entry"
    /\ LET txt_path == join(title, ".txt")
           starts == exists(fs, audio_path) /\ ~transcript_cached(fs, txt_path)
       IN  /\ obs' = [(IF starts /\ variant = "root" THEN InferStarts(obs) ELSE obs)
                        EXCEPT !.txtHit = exists(fs, txt_path), !.fsAtCall = fs]
           /\ IF transcript_cached(fs, txt_path)
              THEN Return(TRUE, << "transcript_exists" >>) /\ UNCHANGED inflight
              ELSE IF ~exists(fs, audio_path)
              THEN Return(FALSE, << "audio_not_found" >>) /\ UNCHANGED inflight
              ELSE /\ out' = Append(out, "transcribing")
                   /\ success' = success
                   /\ IF variant = "app"
                      THEN /\ inflight' = inflight \cup { Call("probe", idx, -1) }
                           /\ pc' = "probe_call"
                      ELSE /\ inflight' = inflight \cup { Call("infer", idx, -1) }
                           /\ pc' = "infer_call"
    /\ UNCHANGED << cfgVars, items, idx, successes, errors, localVars, fs,
                    dirs, tmp, exit_code, model, attempted, finished, calls,
                    sanVars, replayVars >>

\* ffprobe returns; transcribe_audio picks the chunked or the normal path
\* and makes that path's first call (split_audio begins with os.makedirs)
ProbeReturn ==
    /\ pc = "probe_call"
    /\ \E o \in ProbeOutcomes :
          LET d == get_audio_duration(o, audio_path)
          IN  /\ duration' = d
              /\ calls' = Append(calls, Done("probe", -1, o.rc))
              /\ IF over_threshold(d, env.chunk_threshold)
                 THEN /\ tmp' = [tmp EXCEPT !.dirs = @ \cup { title }]
                      /\ inflight' = (inflight \ { Call("probe", idx, -1) })
                                        \cup { Call("split", idx, -1) }
                      /\ pc' = "split_call"
                      /\ out' = Append(out, "splitting")
                      /\ obs' = obs
                 ELSE /\ inflight' = (inflight \ { Call("probe", idx, -1) })
                                        \cup { Call("infer", idx, -1) }
                      /\ pc' = "infer_call"
                      /\ obs' = InferStarts(obs)
                      /\ UNCHANGED << tmp, out >>
    /\ UNCHANGED << cfgVars, loopVars, title, audio_path, chunks, texts, fs,
                    dirs, exit_code, model, attempted, finished, sanVars, replayVars >>

\* ffmpeg returns; split_audio lists the chunks; transcribe_audio gives up
\* on an empty list, or calls the model on the first chunk
SplitReturn ==
    /\ pc = "split_call"
    /\ \E o \in SplitOutcomes(Segments(AudioDur(fs, audio_path), env.chunk_duration)) :
          LET files == tmp.files \cup { [title |-> title, n |-> n] : n \in o.wrote }
              chs == split_audio_result(o.rc, files, title)
          IN  /\ tmp' = [tmp EXCEPT !.files = files]
              /\ calls' = Append(calls, Done("split", -1, o.rc))
              /\ chunks' = chs
              /\ IF chs = << >>
                 THEN /\ Return(FALSE, << "failed_to_split" >>)
                      /\ inflight' = inflight \ { Call("split", idx, -1) }
                      /\ obs' = obs
                 ELSE /\ inflight' = (inflight \ { Call("split", idx, -1) })
                                        \cup { Call("infer", idx, chs[1]) }
                      /\ pc' = "chunk_call"
                      /\ out' = Append(out, "total_chunks")
                      /\ obs' = InferStarts(obs)
                      /\ success' = success
    /\ UNCHANGED << cfgVars, items, idx, successes, errors, title, audio_path,
                    duration, texts, fs, dirs, exit_code, model, attempted,
                    finished, sanVars, replayVars >>

\* with open(txt_path, "w") as f: f.write(full_text), inside the try
Save(full_text, w, history) ==
    IF w = "ok"
    THEN /\ fs' = WriteFile(fs, join(title, ".txt"), full_text)
         /\ calls' = Append(history, Done("write", -1, 0))
         /\ Return(TRUE, << "saved" >>)
    ELSE /\ fs' = (IF w = "partial"
                   THEN WriteFile(fs, join(title, ".txt"), << >>)
                   ELSE fs)
         /\ calls' = history
         /\ Return(FALSE, << "transcription_error" >>)

\* model.transcribe returns for a chunk: the next chunk follows, or the
\* chunks are removed and the joined text is saved; an exception removes the
\* chunks and is caught by the outer try
ChunkReturn ==
    /\ pc = "chunk_call"
    /\ LET i == Len(texts) + 1
           last == i = Len(chunks)
       IN  /\ \E o \in InferResults(chunks[i]) :
               \E w \in (IF last /\ ~o.raised THEN WriteOutcomes ELSE { "ok" }) :
                 LET history == Append(calls, Done("infer", chunks[i], IF o.raised THEN 1 ELSE 0))
                     ts == Append(texts, Strip(o.text, Whitespace))
                 IN  IF o.raised
                     THEN /\ tmp' = rmtree(tmp, title)
                          /\ calls' = history
                          /\ Return(FALSE, << "transcription_error" >>)
                          /\ inflight' = inflight \ { Call("infer", idx, chunks[i]) }
                          /\ UNCHANGED << texts, fs, obs >>
                     ELSE IF ~last
                     THEN /\ texts' = ts
                          /\ calls' = history
                          /\ inflight' = (inflight \ { Call("infer", idx, chunks[i]) })
                                            \cup { Call("infer", idx, chunks[i + 1]) }
                          /\ obs' = InferStarts(obs)
                          /\ UNCHANGED << tmp, fs, pc, success, out >>
                     ELSE /\ texts' = ts
                          /\ tmp' = rmtree(tmp, title)
                          /\ inflight' = inflight \ { Call("infer", idx, chunks[i]) }
                          /\ Save(JoinSpace(ts), w, history)
                          /\ obs' = obs
    /\ UNCHANGED << cfgVars, items, idx, successes, errors, title, audio_path,
                    duration, chunks, dirs, exit_code, model, attempted,
                    finished, sanVars, replayVars >>

\* model.transcribe returns for the whole file: its text is saved
InferReturn ==
    /\ pc = "infer_call"
    /\ inflight' = inflight \ { Call("infer", idx, -1) }
    /\ \E o \in InferResults(-1) :
          \E w \in (IF o.raised THEN { "ok" } ELSE WriteOutcomes) :
            LET history == Append(calls, Done("infer", -1, IF o.raised THEN 1 ELSE 0))
            IN  IF o.raised
                THEN /\ calls' = history
                     /\ Return(FALSE, << "transcription_error" >>)
                     /\ fs' = fs
                ELSE Save(o.text, w, history)
    /\ UNCHANGED << cfgVars, items, idx, successes, errors, localVars, dirs,
                    tmp, exit_code, model, attempted, finished, obs, sanVars, replayVars >>

(***************************************************************************)
(* The end of the loop body, and the summary                               *)
(***************************************************************************)
\* any(err[0] == item for err in errors)
recorded(errs, item) == \E k \in 1..Len(errs) : errs[k].item = item

\* Tally with a break after a failed item
TallyBreaks ==
    /\ pc = "tally"
    /\ successes' = (IF success THEN successes + 1 ELSE successes)
    /\ errors' = (IF success THEN errors
                  ELSE Append(errors, [item |-> items[idx], msg |-> "Processing failed"]))
    /\ finished' = Append(finished, idx)
    /\ pc' = (IF success THEN "loop" ELSE "summary")
    /\ title' = << >>
    /\ audio_path' = NoPath
    /\ duration' = 0
    /\ chunks' = << >>
    /\ texts' = << >>
    /\ calls' = << >>
    /\ out' = << >>
    /\ log' = (IF oracle.free THEN log ELSE Append(log, Replayed(calls)))
    /\ obs' = [obs EXCEPT !.txtHit = FALSE, !.mp3Hit = FALSE, !.fsAtCall = {}]
    /\ UNCHANGED << cfgVars, items, idx, success, fs, dirs, tmp, exit_code,
                    model, attempted, inflight, sanVars, oracle, first >>

\* if success: ... elif not any(...): errors.append(...); the callees' locals
\* are gone, and the per-item history starts afresh
Tally ==
    /\ pc = "tally"
    /\ IF success
       THEN /\ successes' = successes + 1
            /\ errors' = errors
       ELSE /\ successes' = successes
            /\ errors' = (IF recorded(errors, items[idx]) THEN errors
                          ELSE Append(errors, [item |-> items[idx],
                                               msg |-> "Processing failed"]))
    /\ finished' = Append(finished, idx)
    /\ pc' = "loop"
    /\ title' = << >>
    /\ audio_path' = NoPath
    /\ duration' = 0
    /\ chunks' = << >>
    /\ texts' = << >>
    /\ calls' = << >>
    /\ out' = << >>
    /\ log' = (IF oracle.free THEN log ELSE Append(log, Replayed(calls)))
    /\ obs' = [obs EXCEPT !.txtHit = FALSE, !.mp3Hit = FALSE, !.fsAtCall = {}]
    /\ UNCHANGED << cfgVars, items, idx, success, fs, dirs, tmp, exit_code,
                    model, attempted, inflight, sanVars, oracle, first >>

\* "Completed: n/total successful" and the list of failures; main() returns
Summary ==
    /\ pc = "summary"
    /\ out' = Append(out, "summary")
    /\ pc' = "done"
    /\ exit_code' = 0
    /\ UNCHANGED << cfgVars, loopVars, localVars, fs, dirs, tmp, model,
                    attempted, finished, calls, inflight, obs, sanVars, replayVars >>

Next ==
    \/ ParseArgs
    \/ MakeOutputDir
    \/ MakeCacheDir
    \/ ValidateModel
    \/ ResolveInput
    \/ LoadModelStart
    \/ LoadModelReturn
    \/ LoopHead
    \/ TitleReturn
    \/ DownloadEntry
    \/ DownloadReturn
    \/ CleanupVideoFiles
    \/ TranscribeEntry
    \/ ProbeReturn
    \/ SplitReturn
    \/ ChunkReturn
    \/ InferReturn
    \/ Tally
    \/ Summary

Spec == Init /\ [][Next]_vars

(***************************************************************************)
(* SpecSanitize: sanitize_filename applied to every short name             *)
(***************************************************************************)
\* characters the names are drawn from: a plain one, two forbidden ones, and
\* the two that strip('. ') removes
SanChars == { "a", "/", ":", ".", " " }

\* max_length values tried: the default and caller-chosen small caps
SanMaxLens == { 0, 1, 2, 3, 10, DEFAULT_MAX_LENGTH }

SanNames == UNION { [1..k -> SanChars] : k \in 0..MaxNameLen }

\* main() is not running
MainIdle ==
    /\ variant = "app"
    /\ args = [input |-> NoInput, model |-> "tiny"]
    /\ lines = << >>
    /\ env = RootEnv
    /\ fs = {}
    /\ fs0 = {}
    /\ dirs = {}
    /\ tmp = NoTmp
    /\ pc = "idle"
    /\ exit_code = -1
    /\ model = "None"
    /\ items = << >>
    /\ idx = 0
    /\ successes = 0
    /\ errors = << >>
    /\ success = FALSE
    /\ title = << >>
    /\ audio_path = NoPath
    /\ duration = 0
    /\ chunks = << >>
    /\ texts = << >>
    /\ attempted = << >>
    /\ finished = << >>
    /\ calls = << >>
    /\ inflight = {}
    /\ out = << >>
    /\ obs = NoObs

InitSanitize ==
    /\ MainIdle
    /\ ReplayIdle
    /\ sanIn \in SanNames
    /\ sanMax \in SanMaxLens
    /\ sanOut = << >>
    /\ sanDone = FALSE

Sanitize ==
    /\ ~sanDone
    /\ sanOut' = sanitize_filename(sanIn, sanMax)
    /\ sanDone' = TRUE
    /\ UNCHANGED << sanIn, sanMax, mainVars, replayVars >>

NextSanitize == Sanitize

SpecSanitize == InitSanitize /\ [][NextSanitize]_vars

(***************************************************************************)
(* SpecEquiv: the app variant, then the root variant, on the same list,    *)
(* the same files and the same answers of the external tools               *)
(***************************************************************************)
\* what the tools answer for one item: the exit code of the title query,
\* the download, whether the model raises, and how the write goes
Script(t, d, i, w) == [title |-> t, download |-> d, infer |-> i, write |-> w]

Downloaded == [rc |-> 0, wrote |-> TRUE, dur |-> 1]

NotDownloaded == [rc |-> 1, wrote |-> FALSE, dur |-> 0]

ItemScripts ==
    { Script(0, Downloaded, FALSE, "ok"),
      Script(1, Downloaded, FALSE, "ok"),
      Script(0, NotDownloaded, FALSE, "ok"),
      Script(0, Downloaded, TRUE, "ok"),
      Script(0, Downloaded, FALSE, "partial") }

Oracles ==
    [free : { FALSE }, start : { "ok", "not_utf8", "load_raise" },
     item : [1..MaxItems -> ItemScripts]]

\* the lines of the lists both variants are run on
EquivLines == { U1, F1, FW }

EquivLists == UNION { [1..k -> EquivLines] : k \in 1..MaxItems }

\* the files both runs start from; no audio is longer than the threshold
EquivFs ==
    { {},
      { File("out", << "a" >>, ".mp3", 1, << >>) },
      { File("cwd", << "a" >>, ".mp3", 1, << >>),
        File("out", << "a" >>, ".webm", 1, << >>) } }

\* both toggles on, and a threshold no audio exceeds
EquivEnv ==
    [enable_download |-> TRUE, enable_transcription |-> TRUE,
     chunk_duration |-> 1, chunk_threshold |-> MaxDur]

InitEquiv ==
    /\ variant = "app"
    /\ args = [input |-> ListFile, model |-> "large-v3"]
    /\ lines \in EquivLists
    /\ env = EquivEnv
    /\ \E files \in EquivFs :
          fs = files \cup { File("cwd", ListFile.stem, ListFile.ext, 0, << >>) }
    /\ fs0 = fs
    /\ dirs = { "out", "cache" }
    /\ tmp = NoTmp
    /\ pc = "parse"
    /\ exit_code = -1
    /\ model = "None"
    /\ items = << >>
    /\ idx = 0
    /\ successes = 0
    /\ errors = << >>
    /\ success = FALSE
    /\ title = << >>
    /\ audio_path = NoPath
    /\ duration = 0
    /\ chunks = << >>
    /\ texts = << >>
    /\ attempted = << >>
    /\ finished = << >>
    /\ calls = << >>
    /\ inflight = {}
    /\ out = << >>
    /\ obs = NoObs
    /\ oracle \in Oracles
    /\ first = NoResult
    /\ log = << >>
    /\ SanIdle

\* the app variant's run is over: how it ended is kept, and the root variant
\* is started on the same command line, from the files the app variant found
SwitchVariant ==
    /\ ~oracle.free
    /\ ~first.set
    /\ variant = "app"
    /\ pc \in { "done", "exit" }
    /\ first' = [set |-> TRUE, reported |-> pc = "done", successes |-> successes,
                 errors |-> Len(errors), fs |-> fs, log |-> log]
    /\ log' = << >>
    /\ variant' = "root"
    /\ env' = RootEnv
    /\ fs' = fs0
    /\ dirs' = { "out", "cache" }
    /\ tmp' = NoTmp
    /\ pc' = "parse"
    /\ exit_code' = -1
    /\ model' = "None"
    /\ items' = << >>
    /\ idx' = 0
    /\ successes' = 0
    /\ errors' = << >>
    /\ success' = FALSE
    /\ title' = << >>
    /\ audio_path' = NoPath
    /\ duration' = 0
    /\ chunks' = << >>
    /\ texts' = << >>
    /\ attempted' = << >>
    /\ finished' = << >>
    /\ calls' = << >>
    /\ inflight' = {}
    /\ out' = << >>
    /\ obs' = NoObs
    /\ UNCHANGED << args, lines, fs0, oracle, sanVars >>

\* no audio is over the threshold, so split_audio is never reached
NextEquiv ==
    \/ ParseArgs
    \/ MakeOutputDir
    \/ MakeCacheDir
    \/ ValidateModel
    \/ ResolveInput
    \/ LoadModelStart
    \/ LoadModelReturn
    \/ LoopHead
    \/ TitleReturn
    \/ DownloadEntry
    \/ DownloadReturn
    \/ CleanupVideoFiles
    \/ TranscribeEntry
    \/ ProbeReturn
    \/ InferReturn
    \/ Tally
    \/ Summary
    \/ SwitchVariant

SpecEquiv == InitEquiv /\ [][NextEquiv]_vars

(***************************************************************************)
(* The claims                                                              *)
(***************************************************************************)
Printed(m) == \E k \in 1..Len(out) : out[k] = m

HasOp(op) == \E k \in 1..Len(calls) : calls[k].op = op

\* the history's calls of one tool, in order
OpsOf(op) == SelectSeq(calls, LAMBDA c : c.op = op)

InOrder(seq) == \A k \in 1..Len(seq) : seq[k] = k

Batch == args.input = ListFile

\* every external call returns (subprocess.run and model.transcribe block
\* until the tool is done), and main() runs on between the calls
FairSpec == Spec /\ WF_vars(Next)

\* the items are attempted once each, in list order; the process exits early
\* only before the first item; when main() is done every item has been
\* attempted and tallied and the summary has been printed
C1_Safety ==
    /\ InOrder(attempted)
    /\ InOrder(finished)
    /\ Len(attempted) <= Len(items)
    /\ (pc = "exit" => attempted = << >>)
    /\ (pc = "done" => /\ Len(attempted) = Len(items)
                       /\ Len(finished) = Len(items)
                       /\ Printed("summary"))

\* C1: a failed item never aborts the run: C1_Safety holds throughout, and a
\* run that has reached the loop reaches the end of main(), whatever the
\* items did.
C1_BatchNeverAborts == [] C1_Safety /\ ((pc = "loop") ~> (pc = "done"))

\* a batch of two whose first item failed and whose second succeeded
C1_Witness ==
    /\ pc = "done"
    /\ Batch
    /\ Len(items) = 2
    /\ Len(errors) = 1
    /\ errors[1].item = items[1]
    /\ successes = 1

\* C2: the filesystem is a completion cache: when transcribe_audio finds the
\* transcript, no probe, split or model call is made for the item, no file
\* changes, and the item returns to the loop as a success; when
\* download_audio finds the mp3, the downloader is not called and that path
\* is what it returns.
C2_CompletionCache ==
    /\ obs.txtHit =>
          /\ pc = "tally"
          /\ success
          /\ ~HasOp("probe") /\ ~HasOp("split") /\ ~HasOp("infer") /\ ~HasOp("write")
          /\ fs = obs.fsAtCall
    /\ obs.mp3Hit =>
          /\ ~HasOp("download")
          /\ \A c \in inflight : c.op # "download"
          /\ audio_path = join(title, ".mp3")
          /\ \E f \in fs0 \cup fs : PathOf(f) = audio_path

\* both caches hit for one URL
C2_Witness ==
    /\ pc = "tally"
    /\ obs.txtHit
    /\ obs.mp3Hit
    /\ items[idx].kind = "url"

\* C7, as claimed: whatever the name and the cap, the result has no forbidden
\* character, is at most max_length long, and is not empty.
C7_SanitizeCapped ==
    sanDone =>
        /\ \A k \in 1..Len(sanOut) :
              \A j \in 1..Len(ForbiddenChars) : sanOut[k] # ForbiddenChars[j]
        /\ Len(sanOut) <= sanMax
        /\ sanOut # << >>

Single == args.input \notin { NoInput, ListFile }

\* the item the loop is at, and the file main() takes it to name
CurItem == items[idx]
CurPath == IF exists(fs, AsPath(CurItem)) THEN AsPath(CurItem) ELSE JoinOutput(CurItem)

\* C3, as claimed: a missing file or an unsupported extension in a list is
\* skipped (the item fails, the run goes on), while for the single
\* command-line input each rejection ends in an exit of the process.
C3_SkipOrExit ==
    /\ (Batch /\ (Printed("file_not_found") \/ Printed("unsupported_type")))
          => (pc = "tally" /\ ~success)
    /\ (Single /\ (Printed("file_not_found") \/ Printed("unsupported_type")
                   \/ Printed("invalid_input") \/ Printed("invalid_model")))
          => pc = "exit"

\* C3, amended: an invalid model name and a single input that is neither a
\* file nor a URL end the process with status 1; a list item that names no
\* file, and an unsupported extension whether in a list or as the single
\* input, fail the item with a message and the run goes on to the summary.
C3_Rejections ==
    /\ Printed("invalid_model") => (pc = "exit" /\ exit_code = 1)
    /\ Printed("invalid_input") => (pc = "exit" /\ exit_code = 1 /\ Single)
    /\ (Printed("file_not_found") \/ Printed("unsupported_type"))
          => (pc = "tally" /\ ~success /\ exit_code = -1)
    /\ Printed("file_not_found") => Batch
    /\ (pc = "tally" /\ CurItem.kind # "url" /\ ~exists(fs, CurPath))
          => (Printed("file_not_found") /\ ~success)
    /\ (pc = "tally" /\ CurItem.kind # "url" /\ exists(fs, CurPath)
          /\ CurItem.ext \notin SUPPORTED_EXTENSIONS)
          => (Printed("unsupported_type") /\ ~success)
    /\ (Single /\ args.input.kind = "file" /\ ~exists(fs0, AsPath(args.input))
          /\ ~exists(fs0, JoinOutput(args.input)))
          => (items = << >>
              /\ pc \in { "parse", "mkdir_out", "mkdir_cache", "validate", "resolve", "exit" })

\* the single command-line input has an unsupported extension and is tallied
C3_Witness ==
    /\ Single
    /\ pc = "tally"
    /\ Printed("unsupported_type")

\* the call the history ends with
LastIs(op) == calls # << >> /\ calls[Len(calls)].op = op
LastRc == calls[Len(calls)].rc

\* C4, as claimed: download_audio returns the empty path exactly when yt-dlp
\* exited non-zero, and split_audio the empty list exactly when ffmpeg did.
C4_ExitCodeOnly ==
    /\ LastIs("download") => ((audio_path = NoPath) <=> (LastRc # 0))
    /\ LastIs("split") => ((chunks = << >>) <=> (LastRc # 0))

\* C4, amended: a non-zero exit code is always a failure, and so is exit code
\* 0 without the expected result: download_audio returns the empty path
\* exactly when yt-dlp exited non-zero or <title>.mp3 does not exist after
\* it; split_audio's list is empty exactly when ffmpeg exited non-zero or the
\* chunk directory holds no chunk; either way the item fails.
C4_ExitCodeOrMissingResult ==
    /\ LastIs("download") =>
          /\ (audio_path = NoPath)
                <=> (LastRc # 0 \/ ~exists(fs, join(title, ".mp3")))
          /\ audio_path = NoPath => (pc = "tally" /\ ~success)
    /\ LastIs("split") =>
          /\ (chunks = << >>)
                <=> (LastRc # 0 \/ ~\E f \in tmp.files : f.title = title)
          /\ chunks = << >> => (pc = "tally" /\ ~success)

\* yt-dlp exited 0 and left no mp3
C4_Witness ==
    /\ LastIs("download")
    /\ LastRc = 0
    /\ audio_path = NoPath
    /\ pc = "tally"

\* the model names the claim lists
ClaimedModels == { "tiny", "base", "small", "medium", "large", "large-v2", "large-v3" }

\* main() has not got past the validation of the model name
BeforeValidated ==
    /\ pc \in (IF variant = "app"
               THEN { "parse", "mkdir_out", "mkdir_cache", "validate", "exit" }
               ELSE { "parse", "validate", "exit" })
    /\ model = "None"
    /\ obs.loads = 0
    /\ ~obs.inferred
    /\ items = << >>
    /\ attempted = << >>
    /\ inflight = {}
    /\ fs = fs0

\* C5, as claimed: a model name outside the set keeps main() from loading the
\* model and from processing any item, and the exit status is 1.
C5_InvalidModelExits1 ==
    args.model \notin ClaimedModels =>
        /\ BeforeValidated
        /\ pc = "exit" => exit_code = 1

\* C5, amended: a model name outside the set keeps main() from loading the
\* model and from processing any item, in both variants; the exit status is
\* 1 when an input was given, and without one the app variant has shown its
\* help and exited 0 and the root variant's parser has exited 2, both before
\* the validation.
C5_InvalidModelExits ==
    args.model \notin ClaimedModels =>
        /\ BeforeValidated
        /\ pc = "exit" =>
              exit_code = (IF args.input # NoInput THEN 1
                           ELSE IF variant = "app" THEN 0 ELSE 2)
        /\ Printed("invalid_model") => (pc = "exit" /\ exit_code = 1)

\* an invalid name was rejected
C5_Witness ==
    /\ args.model \notin ClaimedModels
    /\ pc = "exit"
    /\ exit_code = 1
    /\ Printed("invalid_model")
    /\ args.input = ListFile

\* the place of a tool in the order of an item's calls
Rank(op) ==
    CASE op = "title" -> 0
      [] op = "download" -> 1
      [] op = "probe" -> 2
      [] op = "split" -> 3
      [] op = "infer" -> 4
      [] op = "write" -> 5
      [] OTHER -> -1

\* C6: the run is sequential: at most one external call is in progress; it
\* is the model load before any item, or a call for the item the loop is at,
\* which is the only item not yet tallied; an item's calls come in the order
\* title, download, probe, split, inference, write; and the summary comes
\* when every item has been tallied and no call is in progress.
C6_Sequential ==
    /\ Cardinality(inflight) <= 1
    /\ \A c \in inflight :
          IF c.op = "load" THEN attempted = << >>
          ELSE /\ c.item = idx
               /\ Len(finished) = idx - 1
               /\ \A k \in 1..Len(calls) : Rank(calls[k].op) <= Rank(c.op)
    /\ InOrder(attempted)
    /\ InOrder(finished)
    /\ Len(finished) <= Len(attempted)
    /\ Len(attempted) <= Len(finished) + 1
    /\ \A k \in 1..(Len(calls) - 1) : Rank(calls[k].op) <= Rank(calls[k + 1].op)
    /\ \A k \in 1..Len(calls) : calls[k].op = "write" => k = Len(calls)
    /\ Len(OpsOf("download")) <= 1
    /\ pc \in { "summary", "done" } => (Len(finished) = Len(items) /\ inflight = {})
    /\ Printed("summary") => pc = "done"

\* the second item of a list was a URL that was downloaded, split,
\* transcribed chunk by chunk and saved
C6_Witness ==
    /\ pc = "tally"
    /\ idx = 2
    /\ HasOp("title") /\ HasOp("download") /\ HasOp("probe") /\ HasOp("split")
    /\ Len(OpsOf("infer")) >= 2
    /\ LastIs("write")

\* the chunks (-1: the whole file) the model was called on for the item
InferNs == [k \in 1..Len(OpsOf("infer")) |-> OpsOf("infer")[k].n]

Ascending(seq) == \A j, k \in 1..Len(seq) : j < k => seq[j] < seq[k]

IsPrefix(a, b) == Len(a) <= Len(b) /\ \A k \in 1..Len(a) : a[k] = b[k]

\* the transcript saved for the item
SavedText == (CHOOSE f \in fs : PathOf(f) = join(title, ".txt")).text

\* C8, as claimed: the audio is split exactly when its probed duration is
\* over the threshold; otherwise the model is called once, on the whole file;
\* on the chunked path it is called once per chunk, in ascending order, and
\* what is saved is the chunk texts joined with single spaces.
C8_ChunkedExactlyOverThreshold ==
    (pc = "tally" /\ HasOp("probe")) =>
        /\ HasOp("split") <=> duration > env.chunk_threshold
        /\ ~HasOp("split") => InferNs = << -1 >>
        /\ chunks # << >> =>
              /\ Ascending(chunks)
              /\ InferNs = chunks
              /\ HasOp("write") =>
                    SavedText = JoinSpace([k \in 1..Len(chunks) |-> TextOf(chunks[k])])

\* C8, amended: split exactly when over the threshold, otherwise one call on
\* the whole file; on the chunked path the model is called on the chunks in
\* ascending order, once each, up to and including the first one that raises;
\* the transcript is saved only when none raised, and is the chunk texts,
\* each stripped of surrounding whitespace, joined with single spaces.
C8_ChunkedPath ==
    (pc = "tally" /\ HasOp("probe")) =>
        /\ HasOp("split") <=> duration > env.chunk_threshold
        /\ ~HasOp("split") => InferNs = << -1 >>
        /\ chunks # << >> =>
              /\ Ascending(chunks)
              /\ InferNs # << >>
              /\ IsPrefix(InferNs, chunks)
              /\ \A k \in 1..(Len(InferNs) - 1) : OpsOf("infer")[k].rc = 0
              /\ OpsOf("infer")[Len(InferNs)].rc = 0 => InferNs = chunks
              /\ HasOp("write") =>
                    /\ InferNs = chunks
                    /\ OpsOf("infer")[Len(InferNs)].rc = 0
                    /\ SavedText =
                          JoinSpace([k \in 1..Len(chunks) |->
                                       Strip(TextOf(chunks[k]), Whitespace)])
              /\ success <=> HasOp("write")

\* an audio over the threshold was split in two or more chunks and saved
C8_Witness ==
    /\ pc = "tally"
    /\ success
    /\ Len(chunks) >= 2
    /\ HasOp("write")

\* the ceiling of d / c
Ceiling(d, c) == IF d % c = 0 THEN d \div c ELSE (d \div c) + 1

\* C9, as claimed: on the chunked path the number of chunks, and of model
\* calls when all of them return, is the ceiling of duration / chunk_duration.
C9_ChunkCountIsCeiling ==
    (HasOp("split") /\ chunks # << >>) =>
        /\ Len(chunks) = Ceiling(duration, env.chunk_duration)
        /\ (pc = "tally" /\ success) =>
              Len(OpsOf("infer")) = Ceiling(duration, env.chunk_duration)

\* C10: with ENABLE_TRANSCRIPTION false the model is never loaded, never
\* called and no transcript is written or changed; the model is never called
\* while it is None; and whenever it is called, it was loaded, once, before
\* the first item.
C10_NoInferenceUnlessLoaded ==
    /\ ~env.enable_transcription =>
          /\ model = "None"
          /\ obs.loads = 0
          /\ ~obs.inferred
          /\ \A c \in inflight : c.op \notin { "load", "probe", "split", "infer" }
          /\ ~HasOp("infer") /\ ~HasOp("write")
          /\ { f \in fs : f.ext = ".txt" } = { f \in fs0 : f.ext = ".txt" }
    /\ ~obs.inferOnNone
    /\ obs.inferred => (model = "loaded" /\ obs.loads = 1 /\ obs.loadedAt = 0)
    /\ (\E c \in inflight : c.op = "infer") => model = "loaded"

\* a run without transcription that downloaded one item and failed another
C10_Witness ==
    /\ ~env.enable_transcription
    /\ pc = "done"
    /\ successes >= 1
    /\ Len(errors) >= 1

\* C11, as claimed: whenever transcribe_audio is back from the chunked path,
\* whether the split failed, a chunk raised or all went well, the directory
\* .chunks_<title> and the chunks in it are gone.
C11_ChunkDirRemoved ==
    (pc = "tally" /\ HasOp("split")) =>
        /\ title \notin tmp.dirs
        /\ ~\E f \in tmp.files : f.title = title

\* C12, as claimed: with both toggles false no step of the run has an
\* external call in progress after it, and none changes the files, the output
\* and cache directories, or the chunk directories.
C12_NoActionWhenDisabled ==
    [][(~env.enable_download /\ ~env.enable_transcription) =>
          (inflight' = {} /\ fs' = fs /\ dirs' = dirs /\ tmp' = tmp)]_vars

\* C14, as claimed: after the loop, whatever the list (repeated lines
\* included), the successes and the recorded errors add up to the items.
C14_SummaryAccountsForAll ==
    pc \in { "summary", "done" } => successes + Len(errors) = Len(items)

\* transcribe_audio was entered for the item the loop is at
Transcribing == obs.fsAtCall # {}

\* C13, as claimed: the transcript is written only after every model call
\* for the audio returned without error; an item whose transcription failed
\* leaves no <title>.txt behind; and when transcribe_audio returns True the
\* file exists.
C13_OnlyCompleteTranscripts ==
    /\ HasOp("write") =>
          /\ \A k \in 1..Len(calls) : calls[k].op = "infer" => calls[k].rc = 0
          /\ HasOp("infer")
          /\ chunks # << >> => InferNs = chunks
    /\ (pc = "tally" /\ Transcribing /\ ~success) => ~exists(fs, join(title, ".txt"))
    /\ (pc = "tally" /\ Transcribing /\ success) => exists(fs, join(title, ".txt"))

\* a run of main() is over
Ended == pc \in { "done", "exit" }

\* the transcripts a run wrote
Written(files) == { f \in files : f.ext = ".txt" } \ fs0

\* the two runs ended alike: the same calls for the same items in the same
\* order, the same transcripts, the same counts
EndedAlike ==
    /\ log = first.log
    /\ Written(fs) = Written(first.fs)
    /\ (pc = "done") = first.reported
    /\ successes = first.successes
    /\ Len(errors) = first.errors

\* the app variant's run removed none of the files it found
NothingRemoved == \A f \in fs0 : exists(first.fs, PathOf(f))

\* C15, as claimed: with both toggles on and no audio over the threshold,
\* the root variant, run on the list, files and tool answers the app variant
\* was run on, makes the same title, download and model calls for the same
\* items in the same order, writes the same transcripts, and ends with the
\* same counts of successes and errors.
C15_VariantsEquivalent == (first.set /\ Ended) => EndedAlike

\* C15, amended: the same holds whenever the app variant's
\* cleanup_video_files, which the root variant does not have, removed no
\* file: then both variants make the same calls for the same items in the
\* same order, write the same transcripts and end with the same counts.
C15_EquivalentUnlessCleanup ==
    (first.set /\ Ended /\ NothingRemoved) => EndedAlike

\* both variants have run a list of two to its summary, with a download and
\* a model call for the first item and a transcript written
C15_Witness ==
    /\ first.set
    /\ pc = "done"
    /\ NothingRemoved
    /\ Len(log) = 2
    /\ Len(log[1]) = 3
    /\ successes = 2
    /\ Written(fs) # {}

====
